---------------------------- MODULE Spec2Model ----------------------------
(***************************************************************************)
(* ValueFromLog: the merge of the remote-operation log with the            *)
(* status-change log (domain/models.py), the parquet cache                 *)
(* (infrastructure/cache.py) and the fetch that ties them together         *)
(* (infrastructure/excel_repository.py and its callers).                   *)
(*                                                                         *)
(* Conventions.  A nullable value is a sequence of length 0 or 1: None is  *)
(* <<>> and a present value v is <<v>>.  A null key attribute in a data    *)
(* frame is the string NA.  Timestamps are whole seconds.  A call either   *)
(* returns, [ok |-> TRUE, ...], or raises, [ok |-> FALSE, error |-> ...].  *)
(* A string that the program takes apart (a value of the environment, a    *)
(* line of .env) is the sequence of its pieces: runs of characters without *)
(* separators, and the separators "," "=" "#" " " on their own.            *)
(***************************************************************************)
EXTENDS Integers, Sequences, FiniteSets, TLC

VARIABLES
    \* the merge (domain/models.py)
    keyAttr,        \* which of the eight key columns the rows of this run differ in
    operation_df,   \* build_merged_dataset: the operation_df argument
    state_df,       \* build_merged_dataset: the state_df argument
    call,           \* the last call of build_merged_dataset: arguments and outcome
    previous,       \* the call before it (<<>> when there is none)
    \* the process
    environ,        \* os.environ, restricted to the variables the program reads
    \* the fingerprint (infrastructure/cache.py: build_cache_key)
    reqA,           \* the arguments of one build_cache_key call
    reqB,           \* the arguments of another
    fingerprints,   \* the two keys, once computed (<<>> before)
    \* the cache directory and two processes working on it (infrastructure/cache.py)
    files,          \* .cache: file name |-> content, for the files that exist
    writer,         \* a process in store_cache: where it is, how many calls it made
    reader,         \* a process in load_cached: where it is, its locals, what it returned
    \* the fetch (infrastructure/excel_repository.py and its callers)
    data_dir,       \* data/: the input files that match EXCEL_PATTERN, sorted by name
    env_file,       \* .env: <<>> when absent, else <<its lines>>
    last,           \* the last fetch: its arguments, what it did, its outcome
    completed,      \* the requests fetched successfully whose cache entry is untouched since
    created,        \* for each cache key: the fetch that stored its entry last
    fetches         \* how many fetches were made

matchVars == <<keyAttr, operation_df, state_df, call, previous>>
keyVars == <<reqA, reqB, fingerprints>>
procVars == <<writer, reader>>
fetchVars == <<data_dir, env_file, last, completed, created, fetches>>
vars == <<matchVars, environ, keyVars, files, procVars, fetchVars>>
\* what the actions of one part leave alone
nonMatchVars == <<keyVars, files, procVars, fetchVars>>
nonKeyVars == <<matchVars, environ, files, procVars, fetchVars>>
nonCacheVars == <<matchVars, environ, keyVars, fetchVars>>
nonFetchVars == <<matchVars, keyVars, procVars>>

-----------------------------------------------------------------------------
(* Bounds of the model *)

MaxRows == 3
MaxRepeatRows == 2
MaxStores == 2
MaxLoads == 2
MaxFetches == 2
MaxHitFetches == 3
MaxEnvLines == 2
MaxEnvLoads == 2

\* timestamps of the operation rows and of the status rows, in seconds
OperationTimes == {0, 60, 180}
StatusTimes == {60, 120}
\* values of the key column that varies; NA is a null cell
NA == "<NA>"
OperationValues == {"a", "", NA}
StatusValues == {"a", NA}
\* explicit tolerance_minutes arguments
ToleranceArgs == {0, 1}
\* values of MERGE_TOLERANCE_MINUTES (<<>> is the empty string: set but empty)
ToleranceEnv == {<<>>, <<"0">>, <<"2">>}

None == <<>>
Some(v) == <<v>>
IsNone(x) == x = <<>>
Get(x) == x[1]

Abs(n) == IF n < 0 THEN -n ELSE n

-----------------------------------------------------------------------------
(* domain/models.py: MergedLogDataset.build_merged_dataset *)

\* key_cols, in the order of the source
key_cols == <<"ContractId", "FloorCode", "RoomName", "EquipmentTypeId",
              "EquipmentName", "PropertyCode1", "PropertyName1", "PropertyValue1">>

\* df[key_cols].fillna(""): a null cell becomes the empty string
fillna(attrs) == [i \in DOMAIN attrs |-> IF attrs[i] = NA THEN "" ELSE attrs[i]]

\* The 64-bit hash of one cell.  The model gives every distinct cell value a
\* distinct code (a collision of the real hash has probability 2^-64).
hash_array(v) == CASE v = "" -> 2 [] v = "a" -> 1 [] v = "b" -> 3
                    [] v = "c1" -> 5 [] v = "c2" -> 4

RECURSIVE combine_hash(_, _)
combine_hash(cells, n) ==
    IF n = 0 THEN 0 ELSE combine_hash(cells, n - 1) * 8 + hash_array(cells[n])

\* (mutant) the last key column, PropertyValue1, left out of the hash
make_key_WithoutLastColumn(attrs) == combine_hash(fillna(attrs), Len(key_cols) - 1)

\* pd.util.hash_pandas_object(df[key_cols].fillna(""), index=False), one row
make_key(attrs) == combine_hash(fillna(attrs), Len(key_cols))

\* df.assign(_k=make_key(df))
assign_k(df) == [i \in DOMAIN df |-> [attrs |-> df[i].attrs, t |-> df[i].t,
                                       _k |-> make_key(df[i].attrs)]]

\* the order of sort_values(["_k", <time>]): lexicographic, stable
RowLess(a, b) == a._k < b._k \/ (a._k = b._k /\ a.t < b.t)

RECURSIVE InsertSorted(_, _)
InsertSorted(sorted, row) ==
    IF sorted = <<>> THEN <<row>>
    ELSE IF RowLess(row, Head(sorted)) THEN <<row>> \o sorted
    ELSE <<Head(sorted)>> \o InsertSorted(Tail(sorted), row)

RECURSIVE sort_values(_)
sort_values(df) ==
    IF df = <<>> THEN <<>>
    ELSE InsertSorted(sort_values(SubSeq(df, 1, Len(df) - 1)), df[Len(df)])

\* Index(values).is_monotonic_increasing on the "on" column
is_monotonic_increasing(df) == \A i \in 1..(Len(df) - 1) : df[i].t <= df[i + 1].t

\* (mutant) the backward search without the tolerance test
asof_join_backward_NoTolerance(l, right, tol) ==
    LET cand == {j \in DOMAIN right : right[j]._k = l._k /\ right[j].t <= l.t}
    IN IF cand = {} THEN 0 ELSE CHOOSE j \in cand : \A m \in cand : m <= j

\* asof_join_backward_on_X_by_Y: the last right row of the same group with
\* right.t <= left.t, dropped when it is further away than the tolerance
asof_join_backward(l, right, tol) ==
    LET cand == {j \in DOMAIN right : right[j]._k = l._k /\ right[j].t <= l.t}
        found == IF cand = {} THEN 0 ELSE CHOOSE j \in cand : \A m \in cand : m <= j
    IN IF found # 0 /\ ~(l.t - right[found].t <= tol) THEN 0 ELSE found

\* asof_join_forward_on_X_by_Y: the first right row of the same group with
\* right.t >= left.t, dropped when it is further away than the tolerance
asof_join_forward(l, right, tol) ==
    LET cand == {j \in DOMAIN right : right[j]._k = l._k /\ right[j].t >= l.t}
        found == IF cand = {} THEN 0 ELSE CHOOSE j \in cand : \A m \in cand : j <= m
    IN IF found # 0 /\ ~(right[found].t - l.t <= tol) THEN 0 ELSE found

\* a mutant of asof_join_nearest: at equal distance the forward candidate wins
asof_join_nearest_LaterOnTie(l, right, tol) ==
    LET b == asof_join_backward(l, right, tol)
        f == asof_join_forward(l, right, tol)
    IN IF b # 0 /\ f # 0
       THEN (IF l.t - right[b].t < right[f].t - l.t THEN b ELSE f)
       ELSE (IF b # 0 THEN b ELSE f)

\* asof_join_nearest_on_X_by_Y: 0 stands for pandas' -1 (no match)
asof_join_nearest(l, right, tol) ==
    LET b == asof_join_backward(l, right, tol)
        f == asof_join_forward(l, right, tol)
    IN IF b # 0 /\ f # 0
       THEN (IF l.t - right[b].t <= right[f].t - l.t THEN b ELSE f)
       ELSE (IF b # 0 THEN b ELSE f)

\* a mutant of merge_asof: the tolerance is not validated
merge_asof_ToleranceNotValidated(left, right, tol) ==
    IF ~is_monotonic_increasing(left)
    THEN [ok |-> FALSE, error |-> "ValueError: left keys must be sorted"]
    ELSE IF ~is_monotonic_increasing(right)
    THEN [ok |-> FALSE, error |-> "ValueError: right keys must be sorted"]
    ELSE [ok |-> TRUE,
          rows |-> [i \in DOMAIN left |->
                     LET j == asof_join_nearest(left[i], right, tol)
                     IN [attrs |-> left[i].attrs,
                         ReportedDate |-> left[i].t,
                         OrderReceiptDate |-> IF j = 0 THEN None ELSE Some(right[j].t)]]]

\* pd.merge_asof(st_sorted, op_sorted, left_on="ReportedDate",
\*               right_on="OrderReceiptDate", by="_k", direction="nearest",
\*               tolerance=tol); tol in seconds
merge_asof(left, right, tol) ==
    IF tol < 0 THEN [ok |-> FALSE, error |-> "MergeError: tolerance must be positive"]
    ELSE IF ~is_monotonic_increasing(left)
    THEN [ok |-> FALSE, error |-> "ValueError: left keys must be sorted"]
    ELSE IF ~is_monotonic_increasing(right)
    THEN [ok |-> FALSE, error |-> "ValueError: right keys must be sorted"]
    ELSE [ok |-> TRUE,
          rows |-> [i \in DOMAIN left |->
                     LET j == asof_join_nearest(left[i], right, tol)
                     IN [attrs |-> left[i].attrs,
                         ReportedDate |-> left[i].t,
                         OrderReceiptDate |-> IF j = 0 THEN None ELSE Some(right[j].t)]]]

\* os.getenv(name) and os.environ[name] = value; environ maps the names that are
\* set to their values
getenv(env, name) == IF name \in DOMAIN env THEN Some(env[name]) ELSE None
putenv(env, name, value) ==
    [n \in DOMAIN env \cup {name} |-> IF n = name THEN value ELSE env[n]]

\* a mutant of resolve_tolerance: the environment is not read
resolve_tolerance_EnvIgnored(tolerance_minutes, env) ==
    IF ~IsNone(tolerance_minutes) THEN Get(tolerance_minutes) ELSE 5

\* tolerance_minutes: the argument, else MERGE_TOLERANCE_MINUTES, else 5
int(s) == CASE s = "0" -> 0 [] s = "1" -> 1 [] s = "2" -> 2 [] s = "5" -> 5
            [] s = "-1" -> 0 - 1

\* the str that a sequence of pieces stands for
RECURSIVE Text(_)
Text(pieces) == IF pieces = <<>> THEN "" ELSE Head(pieces) \o Text(Tail(pieces))

\* (mutant) the environment variable read before the argument
resolve_tolerance_EnvFirst(tolerance_minutes, env) ==
    LET env_val == getenv(env, "MERGE_TOLERANCE_MINUTES")
    IN IF ~IsNone(env_val) /\ Text(Get(env_val)) # "" THEN int(Text(Get(env_val)))
       ELSE IF ~IsNone(tolerance_minutes) THEN Get(tolerance_minutes) ELSE 5
resolve_tolerance(tolerance_minutes, env) ==
    IF ~IsNone(tolerance_minutes) THEN Get(tolerance_minutes)
    ELSE LET env_val == getenv(env, "MERGE_TOLERANCE_MINUTES")
         IN IF ~IsNone(env_val) /\ Text(Get(env_val)) # "" THEN int(Text(Get(env_val)))
            ELSE 5

\* pd.Timedelta(minutes=tolerance_minutes), in seconds
Timedelta(minutes) == minutes * 60

\* merged["is_remote_operation"], merged["time_diff_seconds"] and the final columns
annotate(r) ==
    LET is_remote == ~IsNone(r.OrderReceiptDate)
        diff == IF IsNone(r.OrderReceiptDate) THEN None
                ELSE Some(Abs(r.ReportedDate - Get(r.OrderReceiptDate)))
    IN [attrs |-> r.attrs,
        ReportedDate |-> r.ReportedDate,
        OrderReceiptDate |-> r.OrderReceiptDate,
        is_remote_operation |-> is_remote,
        time_diff_seconds |-> IF is_remote THEN diff ELSE None]

build_merged_dataset(op_df, st_df, tolerance_minutes, env) ==
    LET tol == Timedelta(resolve_tolerance(tolerance_minutes, env))
        op_sorted == sort_values(assign_k(op_df))
        st_sorted == sort_values(assign_k(st_df))
        merged == merge_asof(st_sorted, op_sorted, tol)
    IN IF ~merged.ok THEN merged
       ELSE [ok |-> TRUE, rows |-> [i \in DOMAIN merged.rows |-> annotate(merged.rows[i])]]

-----------------------------------------------------------------------------
(* infrastructure/cache.py: cache_paths, load_cached, store_cache *)

\* cache_paths(key): CACHE_DIR / key with the suffixes .op.parquet, .state.parquet
cache_paths(key) == <<[key |-> key, suffix |-> ".op.parquet"],
                      [key |-> key, suffix |-> ".state.parquet"]>>

\* Path.exists()
exists(fs, path) == path \in DOMAIN fs

WriteFile(fs, path, content) ==
    [p \in DOMAIN fs \cup {path} |-> IF p = path THEN content ELSE fs[p]]

\* DataFrame.to_parquet(path, index=False) writes the file in place.  It first
\* creates or truncates the file: until the footer is written the file exists
\* and is no parquet file.  by is the call that writes (for the properties).
to_parquet_open(fs, path, by) ==
    WriteFile(fs, path, [readable |-> FALSE, frame |-> <<>>, by |-> by])

\* index=False: the index of the frame is not written
to_parquet_close(fs, path, df, by) ==
    WriteFile(fs, path, [readable |-> TRUE,
                         frame |-> [i \in DOMAIN df |-> [attrs |-> df[i].attrs, t |-> df[i].t]],
                         by |-> by])

to_parquet(fs, path, df, by) == to_parquet_close(to_parquet_open(fs, path, by), path, df, by)

\* pd.read_parquet(path): raises on a missing or unreadable file; the frame read
\* has a fresh RangeIndex
read_parquet(fs, path) ==
    IF exists(fs, path) /\ fs[path].readable
    THEN [ok |-> TRUE,
          df |-> [i \in DOMAIN fs[path].frame |->
                    [idx |-> i - 1, attrs |-> fs[path].frame[i].attrs,
                     t |-> fs[path].frame[i].t]],
          by |-> fs[path].by]
    ELSE [ok |-> FALSE]

\* Path.unlink() inside try/except OSError: a missing file is passed over
unlink(fs, path) == [p \in DOMAIN fs \ {path} |-> fs[p]]

\* a mutant of store_cache: the state frame is not written
store_cache_OperationsOnly(fs, key, op_df, st_df, by) ==
    to_parquet(fs, cache_paths(key)[1], op_df, by)

\* a mutant of store_cache: each frame is written to the path of the other
store_cache_Swapped(fs, key, op_df, st_df, by) ==
    LET op_path == cache_paths(key)[1]
        state_path == cache_paths(key)[2]
    IN to_parquet(to_parquet(fs, op_path, st_df, by), state_path, op_df, by)

\* store_cache(key, op_df, state_df), run without interruption
store_cache(fs, key, op_df, st_df, by) ==
    LET op_path == cache_paths(key)[1]
        state_path == cache_paths(key)[2]
    IN to_parquet(to_parquet(fs, op_path, op_df, by), state_path, st_df, by)

\* store_cache(key, op_df, state_df) in which a to_parquet raises: when the file
\* is opened (nothing is written), or while it is written (the file is left
\* incomplete)
StoreFaults == {"op_open", "op_write", "state_open", "state_write"}

store_cache_interrupted(fs, key, op_df, st_df, by, fault) ==
    LET op_path == cache_paths(key)[1]
        state_path == cache_paths(key)[2]
        op_done == to_parquet(fs, op_path, op_df, by)
    IN CASE fault = "op_open" -> fs
         [] fault = "op_write" -> to_parquet_open(fs, op_path, by)
         [] fault = "state_open" -> op_done
         [] fault = "state_write" -> to_parquet_open(op_done, state_path, by)

\* a mutant of load_cached: an entry that cannot be read is returned as a pair
\* of empty frames
load_cached_EmptyOnFailure(fs, key) ==
    LET op_path == cache_paths(key)[1]
        state_path == cache_paths(key)[2]
        op_read == read_parquet(fs, op_path)
        state_read == read_parquet(fs, state_path)
    IN IF ~(exists(fs, op_path) /\ exists(fs, state_path))
       THEN [cached |-> None, files |-> fs, failed |-> FALSE]
       ELSE IF op_read.ok /\ state_read.ok
       THEN [cached |-> Some([op_df |-> op_read.df, state_df |-> state_read.df]),
             files |-> fs, failed |-> FALSE]
       ELSE [cached |-> Some([op_df |-> <<>>, state_df |-> <<>>]), files |-> fs,
             failed |-> TRUE]

\* load_cached(key), run without interruption: what it returns (None, or the
\* pair) and the cache directory it leaves
load_cached(fs, key) ==
    LET op_path == cache_paths(key)[1]
        state_path == cache_paths(key)[2]
        op_read == read_parquet(fs, op_path)
        state_read == read_parquet(fs, state_path)
    IN IF ~(exists(fs, op_path) /\ exists(fs, state_path))
       THEN [cached |-> None, files |-> fs, failed |-> FALSE]
       ELSE IF op_read.ok /\ state_read.ok
       THEN [cached |-> Some([op_df |-> op_read.df, state_df |-> state_read.df]),
             files |-> fs, failed |-> FALSE]
       ELSE [cached |-> None, files |-> unlink(unlink(fs, op_path), state_path),
             failed |-> TRUE]

NoFiles == [p \in {} |-> <<>>]
NoEntries == [key \in {} |-> <<>>]

CacheIdle ==
    /\ files = NoFiles
    /\ writer = None
    /\ reader = None

FetchIdle ==
    /\ data_dir = <<>>
    /\ env_file = None
    /\ last = None
    /\ completed = {}
    /\ created = NoEntries
    /\ fetches = 0

-----------------------------------------------------------------------------
(* The merge on its own: rows are appended to the two data frames, then     *)
(* build_merged_dataset is called.                                          *)

\* a row whose key columns are all "a" except column attr
Row(attr, v, t) == [attrs |-> [i \in DOMAIN key_cols |-> IF i = attr THEN v ELSE "a"],
                    t |-> t]

NoEnviron == [n \in {} |-> <<>>]

InitMatch ==
    /\ keyAttr \in DOMAIN key_cols
    /\ operation_df = <<>>
    /\ state_df = <<>>
    /\ environ = NoEnviron
    /\ call = None
    /\ previous = None
    /\ reqA = None /\ reqB = None /\ fingerprints = None
    /\ CacheIdle
    /\ FetchIdle

AddOperation(v, t, limit) ==
    /\ IsNone(call)
    /\ Len(operation_df) + Len(state_df) < limit
    /\ operation_df' = Append(operation_df, Row(keyAttr, v, t))
    /\ UNCHANGED <<keyAttr, state_df, environ, call, previous, nonMatchVars>>

AddStatus(v, t, limit) ==
    /\ IsNone(call)
    /\ Len(operation_df) + Len(state_df) < limit
    /\ state_df' = Append(state_df, Row(keyAttr, v, t))
    /\ UNCHANGED <<keyAttr, operation_df, environ, call, previous, nonMatchVars>>

\* MergedLogDataset.build_merged_dataset(operation_df, state_df, tolerance_minutes)
Build(tolerance_minutes) ==
    /\ IsNone(call)
    /\ call' = Some([tolerance_minutes |-> tolerance_minutes,
                     result |-> build_merged_dataset(operation_df, state_df,
                                                     tolerance_minutes, environ)])
    /\ UNCHANGED <<keyAttr, operation_df, state_df, environ, previous, nonMatchVars>>

NextMatch ==
    \/ \E v \in OperationValues, t \in OperationTimes : AddOperation(v, t, MaxRows)
    \/ \E v \in StatusValues, t \in StatusTimes : AddStatus(v, t, MaxRows)
    \/ \E m \in ToleranceArgs : Build(Some(m))
    \/ Build(None)

SpecMatch == InitMatch /\ [][NextMatch]_vars

(* The same call made twice, the process environment changing in between. *)

\* os.environ["MERGE_TOLERANCE_MINUTES"] = v, between two calls
SetEnv(v) ==
    /\ ~IsNone(call)
    /\ IsNone(previous)
    /\ getenv(environ, "MERGE_TOLERANCE_MINUTES") # Some(v)
    /\ environ' = putenv(environ, "MERGE_TOLERANCE_MINUTES", v)
    /\ UNCHANGED <<keyAttr, operation_df, state_df, call, previous, nonMatchVars>>

\* build_merged_dataset called again with the arguments of the last call
Repeat ==
    /\ ~IsNone(call)
    /\ IsNone(previous)
    /\ previous' = call
    /\ call' = Some([tolerance_minutes |-> Get(call).tolerance_minutes,
                     result |-> build_merged_dataset(operation_df, state_df,
                                                     Get(call).tolerance_minutes,
                                                     environ)])
    /\ UNCHANGED <<keyAttr, operation_df, state_df, environ, nonMatchVars>>

NextRepeat ==
    \/ \E v \in OperationValues, t \in OperationTimes : AddOperation(v, t, MaxRepeatRows)
    \/ \E v \in StatusValues, t \in StatusTimes : AddStatus(v, t, MaxRepeatRows)
    \/ \E m \in ToleranceArgs : Build(Some(m))
    \/ Build(None)
    \/ \E v \in ToleranceEnv : SetEnv(v)
    \/ Repeat

SpecRepeat == InitMatch /\ [][NextRepeat]_vars

(* The same, with tolerances of zero and below. *)

SignedToleranceArgs == {0 - 1, 0}
SignedToleranceEnv == {<<"-1">>, <<"0">>}

NextSigned ==
    \/ \E v \in OperationValues, t \in OperationTimes : AddOperation(v, t, MaxRepeatRows)
    \/ \E v \in StatusValues, t \in StatusTimes : AddStatus(v, t, MaxRepeatRows)
    \/ \E m \in SignedToleranceArgs : Build(Some(m))
    \/ Build(None)
    \/ \E v \in SignedToleranceEnv : SetEnv(v)
    \/ Repeat

SpecSigned == InitMatch /\ [][NextSigned]_vars

-----------------------------------------------------------------------------
(* infrastructure/cache.py: build_cache_key *)

\* excel_repository.py: DEFAULT_OPERATION_COLS and DEFAULT_STATE_COLS
DEFAULT_OPERATION_COLS ==
    <<"ContractId", "OrderReceiptDate", "TimerDiv", "FloorCode", "RoomName",
      "EquipmentTypeId", "EquipmentName", "PropertyCode", "PropertyName", "PropertyValue">>
DEFAULT_STATE_COLS ==
    <<"MessageName", "ContractId", "ReportedDate", "FloorCode", "RoomName",
      "EquipmentTypeId", "EquipmentName", "PropertyCode1", "PropertyName1", "PropertyValue1">>

\* sep.join(items)
RECURSIVE join(_, _)
join(sep, items) ==
    IF items = <<>> THEN ""
    ELSE IF Len(items) = 1 THEN items[1]
    ELSE items[1] \o sep \o join(sep, Tail(items))

\* the order of Python's str comparison on the contract ids of the model
StrLess(a, b) ==
    LET rank(x) == CASE x = "c1" -> 1 [] x = "c2" -> 2 [] OTHER -> 3
    IN rank(a) < rank(b)

RECURSIVE InsertStr(_, _)
InsertStr(sorted_ids, x) ==
    IF sorted_ids = <<>> THEN <<x>>
    ELSE IF StrLess(x, Head(sorted_ids)) THEN <<x>> \o sorted_ids
    ELSE <<Head(sorted_ids)>> \o InsertStr(Tail(sorted_ids), x)

\* a mutant of sorted: the list is left in the order given
sorted_OrderKept(ids) ==
    ids

\* sorted(contract_ids)
RECURSIVE sorted(_)
sorted(ids) ==
    IF ids = <<>> THEN <<>>
    ELSE InsertStr(sorted(SubSeq(ids, 1, Len(ids) - 1)), ids[Len(ids)])

\* str(pd.to_datetime(t)) for a timestamp t seconds into 1970-01-01 (t < 600)
TwoDigits(n) == IF n < 10 THEN "0" \o ToString(n) ELSE ToString(n)
Timestamp_str(t) == "1970-01-01 00:" \o TwoDigits(t \div 60) \o ":" \o TwoDigits(t % 60)

\* hashlib.sha256 over the bytes fed to it, hexdigest(): the digest is a value
\* that the bytes determine, and distinct bytes give distinct digests (no
\* collision of SHA-256 is part of the model)
sha256_hexdigest(bytes) == <<"sha256", bytes>>

build_cache_key(latest_path, mtime_ns, operation_cols, state_cols, contract_ids, start_date, end_date) ==
    sha256_hexdigest(
        latest_path
        \o ToString(mtime_ns)
        \o join(",", operation_cols \o state_cols)
        \o join(",", sorted(contract_ids))
        \o Timestamp_str(start_date)
        \o (IF ~IsNone(end_date) THEN Timestamp_str(Get(end_date)) ELSE "<end=latest>"))

(* Two requests, changed one argument at a time, then fingerprinted. *)

\* the column lists a configuration may ask for
OperationColumnLists ==
    {DEFAULT_OPERATION_COLS,
     <<"ContractId", "OrderReceiptDate">>,
     <<"ContractId", "OrderReceiptDate", "FloorCode">>}
StateColumnLists ==
    {DEFAULT_STATE_COLS,
     <<"ContractId", "ReportedDate">>,
     <<"FloorCode", "ContractId", "ReportedDate">>}
ContractIdLists == {<<"c1">>, <<"c2">>, <<"c1", "c2">>, <<"c2", "c1">>}
StartDates == {0, 60}
EndDates == {None, Some(120), Some(180)}
SourcePath == "data/log_0101.xlsx"
SourceMtimes == {1, 2}

Requests ==
    [latest_path : {SourcePath}, mtime_ns : {1},
     operation_cols : OperationColumnLists, state_cols : StateColumnLists,
     contract_ids : ContractIdLists, start_date : StartDates, end_date : EndDates]

KeyOf(r) == build_cache_key(r.latest_path, r.mtime_ns, r.operation_cols, r.state_cols,
                            r.contract_ids, r.start_date, r.end_date)

MatchIdle ==
    /\ keyAttr = 1
    /\ operation_df = <<>>
    /\ state_df = <<>>
    /\ call = None
    /\ previous = None

InitKey ==
    /\ MatchIdle
    /\ environ = NoEnviron
    /\ reqA \in Requests
    /\ reqB = reqA
    /\ fingerprints = None
    /\ CacheIdle
    /\ FetchIdle

ChangeStart(d) ==
    /\ IsNone(fingerprints)
    /\ reqB' = [reqB EXCEPT !.start_date = d]
    /\ UNCHANGED <<reqA, fingerprints, nonKeyVars>>

ChangeEnd(e) ==
    /\ IsNone(fingerprints)
    /\ reqB' = [reqB EXCEPT !.end_date = e]
    /\ UNCHANGED <<reqA, fingerprints, nonKeyVars>>

ChangeContractIds(ids) ==
    /\ IsNone(fingerprints)
    /\ reqB' = [reqB EXCEPT !.contract_ids = ids]
    /\ UNCHANGED <<reqA, fingerprints, nonKeyVars>>

ChangeColumns(oc, sc) ==
    /\ IsNone(fingerprints)
    /\ reqB' = [reqB EXCEPT !.operation_cols = oc, !.state_cols = sc]
    /\ UNCHANGED <<reqA, fingerprints, nonKeyVars>>

\* the source file rewritten: st_mtime_ns changes
TouchSource(m) ==
    /\ IsNone(fingerprints)
    /\ reqB' = [reqB EXCEPT !.mtime_ns = m]
    /\ UNCHANGED <<reqA, fingerprints, nonKeyVars>>

BuildKeys ==
    /\ IsNone(fingerprints)
    /\ fingerprints' = Some([a |-> KeyOf(reqA), b |-> KeyOf(reqB)])
    /\ UNCHANGED <<reqA, reqB, nonKeyVars>>

NextKey ==
    \/ \E d \in StartDates : ChangeStart(d)
    \/ \E e \in EndDates : ChangeEnd(e)
    \/ \E ids \in ContractIdLists : ChangeContractIds(ids)
    \/ \E oc \in OperationColumnLists, sc \in StateColumnLists : ChangeColumns(oc, sc)
    \/ \E m \in SourceMtimes : TouchSource(m)
    \/ BuildKeys

SpecKey == InitKey /\ [][NextKey]_vars

\* the set of a list's elements
Elements(list) == {list[i] : i \in DOMAIN list}

\* C7: two requests that differ in start_date, in end_date (present or absent
\* included), in the set of contract_ids or in the operation/status column lists
\* get different cache keys.
C7_FingerprintSensitive ==
    (/\ ~IsNone(fingerprints)
     /\ \/ reqA.start_date # reqB.start_date
        \/ reqA.end_date # reqB.end_date
        \/ Elements(reqA.contract_ids) # Elements(reqB.contract_ids)
        \/ reqA.operation_cols # reqB.operation_cols
        \/ reqA.state_cols # reqB.state_cols)
        => Get(fingerprints).a # Get(fingerprints).b

\* two lists hold the same elements, each as many times
IsPermutation(a, b) ==
    /\ Len(a) = Len(b)
    /\ \A x \in Elements(a) \cup Elements(b) :
          Cardinality({i \in DOMAIN a : a[i] = x}) = Cardinality({i \in DOMAIN b : b[i] = x})

\* C17: two requests whose contract_ids lists are permutations of each other
\* and whose other inputs (file, modification time, columns, start_date,
\* end_date) are equal get the same cache key.
C17_KeyOrderIndependent ==
    (/\ ~IsNone(fingerprints)
     /\ IsPermutation(reqA.contract_ids, reqB.contract_ids)
     /\ [reqA EXCEPT !.contract_ids = <<>>] = [reqB EXCEPT !.contract_ids = <<>>])
        => Get(fingerprints).a = Get(fingerprints).b

C17_Witness ==
    /\ ~IsNone(fingerprints)
    /\ reqA.contract_ids # reqB.contract_ids
    /\ IsPermutation(reqA.contract_ids, reqB.contract_ids)
    /\ [reqA EXCEPT !.contract_ids = <<>>] = [reqB EXCEPT !.contract_ids = <<>>]
    /\ Get(fingerprints).a = Get(fingerprints).b

-----------------------------------------------------------------------------
(* One process in store_cache and one in load_cached, on the same key.  Each *)
(* file operation is a step of its own; the two processes interleave.        *)

CacheKey == sha256_hexdigest("entry")
StoredOperations == <<[idx |-> 4, attrs |-> Row(1, "c1", 0).attrs, t |-> 0]>>
StoredStatuses == <<[idx |-> 7, attrs |-> Row(1, "c1", 0).attrs, t |-> 60]>>

InitCache ==
    /\ MatchIdle
    /\ environ = NoEnviron
    /\ reqA = None /\ reqB = None /\ fingerprints = None
    /\ files = NoFiles
    /\ writer = [pc |-> "idle", calls |-> 0]
    /\ reader = [pc |-> "idle", calls |-> 0, op_df |-> None, returned |-> None,
                 failed_on |-> None, unlinked |-> {}]
    /\ FetchIdle

\* store_cache is called
StoreCall ==
    /\ writer.pc = "idle"
    /\ writer.calls < MaxStores
    /\ writer' = [pc |-> "open_op", calls |-> writer.calls + 1]
    /\ UNCHANGED <<files, reader, nonCacheVars>>

\* op_df.to_parquet(op_path, index=False): the file is created or truncated
StoreOpenOp ==
    /\ writer.pc = "open_op"
    /\ files' = to_parquet_open(files, cache_paths(CacheKey)[1], writer.calls)
    /\ writer' = [writer EXCEPT !.pc = "close_op"]
    /\ UNCHANGED <<reader, nonCacheVars>>

\* ... and written to its end
StoreCloseOp ==
    /\ writer.pc = "close_op"
    /\ files' = to_parquet_close(files, cache_paths(CacheKey)[1], StoredOperations,
                                 writer.calls)
    /\ writer' = [writer EXCEPT !.pc = "open_state"]
    /\ UNCHANGED <<reader, nonCacheVars>>

\* state_df.to_parquet(state_path, index=False): the file is created or truncated
StoreOpenState ==
    /\ writer.pc = "open_state"
    /\ files' = to_parquet_open(files, cache_paths(CacheKey)[2], writer.calls)
    /\ writer' = [writer EXCEPT !.pc = "close_state"]
    /\ UNCHANGED <<reader, nonCacheVars>>

\* ... and written to its end; store_cache returns
StoreCloseState ==
    /\ writer.pc = "close_state"
    /\ files' = to_parquet_close(files, cache_paths(CacheKey)[2], StoredStatuses,
                                 writer.calls)
    /\ writer' = [writer EXCEPT !.pc = "idle"]
    /\ UNCHANGED <<reader, nonCacheVars>>

\* load_cached is called
LoadCall ==
    /\ reader.pc = "idle"
    /\ reader.calls < MaxLoads
    /\ reader' = [pc |-> "exists_op", calls |-> reader.calls + 1, op_df |-> None,
                  returned |-> None, failed_on |-> None, unlinked |-> {}]
    /\ UNCHANGED <<files, writer, nonCacheVars>>

\* op_path.exists(); False: return None
LoadExistsOp ==
    /\ reader.pc = "exists_op"
    /\ reader' = IF exists(files, cache_paths(CacheKey)[1])
                 THEN [reader EXCEPT !.pc = "exists_state"]
                 ELSE [reader EXCEPT !.pc = "idle", !.returned = Some(None)]
    /\ UNCHANGED <<files, writer, nonCacheVars>>

\* state_path.exists(); False: return None
LoadExistsState ==
    /\ reader.pc = "exists_state"
    /\ reader' = IF exists(files, cache_paths(CacheKey)[2])
                 THEN [reader EXCEPT !.pc = "read_op"]
                 ELSE [reader EXCEPT !.pc = "idle", !.returned = Some(None)]
    /\ UNCHANGED <<files, writer, nonCacheVars>>

\* op_df = pd.read_parquet(op_path); an exception leads to the except clause
LoadReadOp ==
    /\ reader.pc = "read_op"
    /\ LET path == cache_paths(CacheKey)[1]
           r == read_parquet(files, path)
       IN reader' = IF r.ok
                    THEN [reader EXCEPT !.pc = "read_state", !.op_df = Some(r)]
                    ELSE [reader EXCEPT !.pc = "unlink_op",
                                        !.failed_on = IF exists(files, path)
                                                      THEN Some(files[path]) ELSE None]
    /\ UNCHANGED <<files, writer, nonCacheVars>>

\* state_df = pd.read_parquet(state_path); return op_df, state_df
LoadReadState ==
    /\ reader.pc = "read_state"
    /\ LET path == cache_paths(CacheKey)[2]
           r == read_parquet(files, path)
       IN reader' = IF r.ok
                    THEN [reader EXCEPT !.pc = "idle",
                                        !.returned = Some(Some([op |-> Get(reader.op_df),
                                                                state |-> r]))]
                    ELSE [reader EXCEPT !.pc = "unlink_op",
                                        !.failed_on = IF exists(files, path)
                                                      THEN Some(files[path]) ELSE None]
    /\ UNCHANGED <<files, writer, nonCacheVars>>

\* except Exception: op_path.unlink()
LoadUnlinkOp ==
    /\ reader.pc = "unlink_op"
    /\ LET path == cache_paths(CacheKey)[1]
       IN /\ files' = unlink(files, path)
          /\ reader' = [reader EXCEPT !.pc = "unlink_state",
                           !.unlinked = IF exists(files, path)
                                        THEN @ \cup {files[path]} ELSE @]
    /\ UNCHANGED <<writer, nonCacheVars>>

\* state_path.unlink(); return None
LoadUnlinkState ==
    /\ reader.pc = "unlink_state"
    /\ LET path == cache_paths(CacheKey)[2]
       IN /\ files' = unlink(files, path)
          /\ reader' = [reader EXCEPT !.pc = "idle", !.returned = Some(None),
                           !.unlinked = IF exists(files, path)
                                        THEN @ \cup {files[path]} ELSE @]
    /\ UNCHANGED <<writer, nonCacheVars>>

NextCache ==
    \/ StoreCall \/ StoreOpenOp \/ StoreCloseOp \/ StoreOpenState \/ StoreCloseState
    \/ LoadCall \/ LoadExistsOp \/ LoadExistsState \/ LoadReadOp \/ LoadReadState
    \/ LoadUnlinkOp \/ LoadUnlinkState

SpecCache == InitCache /\ [][NextCache]_vars

\* C8: with store_cache and load_cached running on one key, at every interleaving
\* the reader never reads a partially written file, returns None or a complete
\* pair written by one store, and never removes a file of the entry (the store
\* that has finished leaves both files in place, complete).
C8_AtomicStore ==
    /\ IsNone(reader.failed_on)
    /\ reader.unlinked = {}
    /\ (~IsNone(reader.returned) /\ ~IsNone(Get(reader.returned))) =>
          LET pair == Get(Get(reader.returned))
          IN pair.op.ok /\ pair.state.ok /\ pair.op.by = pair.state.by
    /\ (writer.pc = "idle" /\ writer.calls > 0) =>
          \A n \in {1, 2} :
             /\ exists(files, cache_paths(CacheKey)[n])
             /\ files[cache_paths(CacheKey)[n]].readable

-----------------------------------------------------------------------------
(* infrastructure/env_settings.py, infrastructure/paths.py and              *)
(* infrastructure/excel_repository.py: the fetch.  A line of .env and the   *)
(* value of an environment variable are sequences of pieces: a name, a      *)
(* value, or one of the characters "=", ",", "#", " ".                      *)

RECURSIVE lstrip(_)
lstrip(pieces) ==
    IF pieces # <<>> /\ Head(pieces) = " " THEN lstrip(Tail(pieces)) ELSE pieces

RECURSIVE rstrip(_)
rstrip(pieces) ==
    IF pieces # <<>> /\ pieces[Len(pieces)] = " "
    THEN rstrip(SubSeq(pieces, 1, Len(pieces) - 1)) ELSE pieces

\* str.strip()
strip(pieces) == rstrip(lstrip(pieces))

\* the position of the first sep in pieces, 0 when there is none
find(pieces, sep) ==
    IF \E i \in DOMAIN pieces : pieces[i] = sep
    THEN CHOOSE i \in DOMAIN pieces :
            pieces[i] = sep /\ \A j \in 1..(i - 1) : pieces[j] # sep
    ELSE 0

\* str.split(sep)
RECURSIVE split(_, _)
split(pieces, sep) ==
    LET at == find(pieces, sep)
    IN IF at = 0 THEN <<pieces>>
       ELSE <<SubSeq(pieces, 1, at - 1)>> \o split(SubSeq(pieces, at + 1, Len(pieces)), sep)

\* a mutant of load_env_line: a variable that is set is overwritten
load_env_line_Overwrites(env, raw_line) ==
    LET line == strip(raw_line)
        eq == find(line, "=")
        key == Text(strip(SubSeq(line, 1, eq - 1)))
        value == strip(SubSeq(line, eq + 1, Len(line)))
    IN IF line = <<>> \/ Head(line) = "#" THEN env
       ELSE IF eq = 0 THEN env
       ELSE putenv(env, key, value)

\* the body of the loop of load_env_file, for one line
load_env_line(env, raw_line) ==
    LET line == strip(raw_line)
        eq == find(line, "=")
        key == Text(strip(SubSeq(line, 1, eq - 1)))
        value == strip(SubSeq(line, eq + 1, Len(line)))
    IN IF line = <<>> \/ Head(line) = "#" THEN env
       ELSE IF eq = 0 THEN env
       ELSE IF key \in DOMAIN env THEN env
       ELSE putenv(env, key, value)

RECURSIVE load_env_lines(_, _)
load_env_lines(env, lines) ==
    IF lines = <<>> THEN env
    ELSE load_env_lines(load_env_line(env, Head(lines)), Tail(lines))

\* load_env_file(): the environment it leaves
load_env_file(envfile, env) ==
    IF IsNone(envfile) THEN env ELSE load_env_lines(env, Get(envfile))

\* [item.strip() for item in raw.split(",") if item.strip()]
RECURSIVE stripped_items(_)
stripped_items(items) ==
    IF items = <<>> THEN <<>>
    ELSE IF strip(Head(items)) = <<>> THEN stripped_items(Tail(items))
    ELSE <<Text(strip(Head(items)))>> \o stripped_items(Tail(items))

get_env_list(env, key, default) ==
    LET raw == getenv(env, key)
    IN IF IsNone(raw) THEN default ELSE stripped_items(split(Get(raw), ","))

\* list_input_files(): the files of data/ that match EXCEL_PATTERN, sorted
list_input_files(dir) == dir

\* the columns of the two sheets that hold the key attributes, in the order of
\* key_cols; build_merged_dataset renames the Property columns of the operations
OperationSheetColumns ==
    <<"ContractId", "FloorCode", "RoomName", "EquipmentTypeId", "EquipmentName",
      "PropertyCode", "PropertyName", "PropertyValue">>
StateSheetColumns == key_cols

\* pd.read_excel(latest, sheet_name, usecols): the rows of the sheet with the
\* columns asked for; a key column that was not read is filled with nulls by
\* build_merged_dataset
read_excel(sheet, sheet_cols, usecols) ==
    [i \in DOMAIN sheet |->
        [idx |-> i - 1,
         attrs |-> [c \in DOMAIN key_cols |->
                      IF sheet_cols[c] \in Elements(usecols)
                      THEN sheet[i].attrs[c] ELSE NA],
         t |-> sheet[i].t]]

\* a mutant of in_range: the end of the range is not applied
in_range_EndIgnored(r, contract_ids, start_date, end_date) ==
    /\ r.attrs[1] \in Elements(contract_ids)
    /\ r.t >= start_date

\* a mutant of in_range: the start of the range is excluded
in_range_StrictStart(r, contract_ids, start_date, end_date) ==
    /\ r.attrs[1] \in Elements(contract_ids)
    /\ r.t > start_date
    /\ ~IsNone(end_date) => r.t <= Get(end_date)

\* the three masks of fetch_range: isin(contract_ids), >= start_ts and, when
\* end_date is given, <= end_ts
in_range(r, contract_ids, start_date, end_date) ==
    /\ r.attrs[1] \in Elements(contract_ids)
    /\ r.t >= start_date
    /\ ~IsNone(end_date) => r.t <= Get(end_date)

\* df[mask]: the rows that satisfy the masks, in order, with their index
RECURSIVE filter_range(_, _, _, _)
filter_range(df, contract_ids, start_date, end_date) ==
    IF df = <<>> THEN <<>>
    ELSE IF in_range(Head(df), contract_ids, start_date, end_date)
    THEN <<Head(df)>> \o filter_range(Tail(df), contract_ids, start_date, end_date)
    ELSE filter_range(Tail(df), contract_ids, start_date, end_date)

\* a mutant of Raised: .env is loaded before the call raises
Raised_AfterEnvLoad(w, error, steps) ==
    [outcome |-> [ok |-> FALSE, error |-> error],
     environ |-> load_env_file(w.env_file, w.environ),
     files |-> w.files, steps |-> <<"load_env_file">> \o steps, request |-> None,
     hit |-> FALSE, corrupt |-> FALSE]

\* a call that raises: nothing but what it did so far is left
Raised(w, error, steps) ==
    [outcome |-> [ok |-> FALSE, error |-> error], environ |-> w.environ,
     files |-> w.files, steps |-> steps, request |-> None, hit |-> FALSE,
     corrupt |-> FALSE]

\* ExcelLogRepository.fetch_range(contract_ids, start_date, end_date) in the
\* world w (environment, .env, data/, cache directory): its outcome, the
\* environment and the cache directory it leaves, and what it did
fetch_range(w, contract_ids, start_date, end_date) ==
    IF IsNone(start_date) THEN Raised(w, "ValueError: start_date", <<>>)
    ELSE IF IsNone(contract_ids) THEN Raised(w, "ValueError: contract_ids", <<>>)
    ELSE
    LET env == load_env_file(w.env_file, w.environ)
        w1 == [w EXCEPT !.environ = env]
        operation_cols == get_env_list(env, "OPERATION_COLS", DEFAULT_OPERATION_COLS)
        state_cols == get_env_list(env, "STATE_COLS", DEFAULT_STATE_COLS)
        input_files == list_input_files(w.data_dir)
        latest == input_files[Len(input_files)]
        request == [latest_path |-> latest.path, mtime_ns |-> latest.mtime_ns,
                    operation_cols |-> operation_cols, state_cols |-> state_cols,
                    contract_ids |-> Get(contract_ids),
                    start_date |-> Get(start_date), end_date |-> end_date]
        cache_key == KeyOf(request)
        loaded == load_cached(w.files, cache_key)
        w2 == [w1 EXCEPT !.files = loaded.files]
        op_read == read_excel(latest.operations, OperationSheetColumns, operation_cols)
        state_read == read_excel(latest.statuses, StateSheetColumns, state_cols)
        op_df == filter_range(op_read, Get(contract_ids), Get(start_date), end_date)
        st_df == filter_range(state_read, Get(contract_ids), Get(start_date), end_date)
        found == <<"load_env_file", "list_input_files", "build_cache_key", "load_cached">>
    IN IF input_files = <<>>
       THEN Raised(w1, "FileNotFoundError", <<"load_env_file", "list_input_files">>)
       ELSE IF ~IsNone(loaded.cached)
       THEN [outcome |-> build_merged_dataset(Get(loaded.cached).op_df,
                                              Get(loaded.cached).state_df, None, env),
             environ |-> env, files |-> loaded.files,
             steps |-> found \o <<"build_merged_dataset">>,
             request |-> Some(request), hit |-> TRUE, corrupt |-> loaded.failed]
       ELSE IF w.fault = "read_excel"
       THEN [Raised(w2, "ReadError", found \o <<"read_excel">>)
               EXCEPT !.request = Some(request), !.corrupt = loaded.failed]
       ELSE IF ~({"ContractId", "OrderReceiptDate"} \subseteq Elements(operation_cols))
       THEN [Raised(w2, "KeyError", found \o <<"read_excel">>)
               EXCEPT !.request = Some(request), !.corrupt = loaded.failed]
       ELSE IF ~({"ContractId", "ReportedDate"} \subseteq Elements(state_cols))
       THEN [Raised(w2, "KeyError", found \o <<"read_excel">>)
               EXCEPT !.request = Some(request), !.corrupt = loaded.failed]
       ELSE IF w.fault \in StoreFaults
       THEN [Raised([w2 EXCEPT !.files = store_cache_interrupted(loaded.files, cache_key,
                                                                 op_df, st_df, 0, w.fault)],
                    "OSError", found \o <<"read_excel", "store_cache">>)
               EXCEPT !.request = Some(request), !.corrupt = loaded.failed]
       ELSE [outcome |-> build_merged_dataset(op_df, st_df, None, env),
             environ |-> env,
             files |-> store_cache(loaded.files, cache_key, op_df, st_df, 0),
             steps |-> found \o <<"read_excel", "store_cache", "build_merged_dataset">>,
             request |-> Some(request), hit |-> FALSE, corrupt |-> loaded.failed]

\* LoadLogsUseCase.execute(contract_ids, start_date, end_date); the warning for
\* more than 10000 identifiers changes nothing
execute(w, contract_ids, start_date, end_date) ==
    IF IsNone(start_date) THEN Raised(w, "ValueError: start_date", <<>>)
    ELSE IF IsNone(contract_ids) THEN Raised(w, "ValueError: contract_ids", <<>>)
    ELSE fetch_range(w, contract_ids, start_date, end_date)

\* load_for_notebook(contract_ids, start_date, end_date): merged.df
load_for_notebook(w, contract_ids, start_date, end_date) ==
    IF IsNone(contract_ids) THEN Raised(w, "ValueError: contract_ids (full load)", <<>>)
    ELSE IF IsNone(start_date) THEN Raised(w, "ValueError: start_date", <<>>)
    ELSE execute(w, contract_ids, start_date, end_date)

Apis == {"fetch_range", "execute", "load_for_notebook"}

Invoke(api, w, contract_ids, start_date, end_date) ==
    CASE api = "fetch_range" -> fetch_range(w, contract_ids, start_date, end_date)
      [] api = "execute" -> execute(w, contract_ids, start_date, end_date)
      [] api = "load_for_notebook" -> load_for_notebook(w, contract_ids, start_date, end_date)

\* fault: what goes wrong in the call, "none" when nothing does
World == [environ |-> environ, env_file |-> env_file, data_dir |-> data_dir,
          files |-> files, fault |-> "none"]

\* the input file: two sheets, two contracts
SheetOperations == <<Row(1, "c1", 0), Row(1, "c2", 60), Row(1, "c1", 180)>>
SheetStatuses == <<Row(1, "c1", 60), Row(1, "c2", 60), Row(1, "c1", 120)>>
SourceFile(m) == [path |-> SourcePath, mtime_ns |-> m,
                  operations |-> SheetOperations, statuses |-> SheetStatuses]

\* .env: a comment, an assignment without "=", and the tolerance
EnvFileLines == << <<"#", " ", "settings">>,
                   <<"MERGE_TOLERANCE_MINUTES">>,
                   <<" ", "MERGE_TOLERANCE_MINUTES", " ", "=", " ", "2", " ">> >>

FetchContractIds == {Some(<<"c1">>), Some(<<"c1", "c2">>)}
FetchStartDates == {Some(0), Some(60)}
FetchEndDates == {None, Some(120)}

InitFetch ==
    /\ MatchIdle
    /\ environ = NoEnviron
    /\ reqA = None /\ reqB = None /\ fingerprints = None
    /\ files = NoFiles /\ writer = None /\ reader = None
    /\ data_dir \in {<<>>, <<SourceFile(1)>>}
    /\ env_file = Some(EnvFileLines)
    /\ last = None
    /\ completed = {}
    /\ created = NoEntries
    /\ fetches = 0

\* the entry of a key is stored by a fetch: what that fetch was and returned
Stored(entries, r) ==
    IF "build_merged_dataset" \in Elements(r.steps) /\ ~r.hit
    THEN [key \in DOMAIN entries \cup {KeyOf(Get(r.request))} |->
            IF key = KeyOf(Get(r.request))
            THEN [request |-> Get(r.request), outcome |-> r.outcome,
                  tolerance |-> getenv(r.environ, "MERGE_TOLERANCE_MINUTES")]
            ELSE entries[key]]
    ELSE entries

\* one call of one of the three entry points, in which fault happens; limit
\* bounds the number of calls
Call(api, contract_ids, start_date, end_date, fault, limit) ==
    /\ fetches < limit
    /\ \E r \in {Invoke(api, [World EXCEPT !.fault = fault],
                         contract_ids, start_date, end_date)} :
          /\ environ' = r.environ
          /\ files' = r.files
          /\ last' = Some([api |-> api, contract_ids |-> contract_ids,
                           start_date |-> start_date, end_date |-> end_date,
                           outcome |-> r.outcome, steps |-> r.steps,
                           request |-> r.request, hit |-> r.hit,
                           corrupt |-> r.corrupt])
          /\ completed' = IF r.outcome.ok THEN completed \cup {Get(r.request)}
                          ELSE completed
          /\ created' = Stored(created, r)
    /\ fetches' = fetches + 1
    /\ UNCHANGED <<data_dir, env_file, nonFetchVars>>

\* one call of one of the three entry points
Fetch(api, contract_ids, start_date, end_date) ==
    Call(api, contract_ids, start_date, end_date, "none", MaxFetches)

\* a file of the cache directory is damaged: it is still there, and is no
\* parquet file any more
CorruptEntry(path) ==
    /\ fetches < MaxFetches
    /\ exists(files, path)
    /\ files[path].readable
    /\ files' = WriteFile(files, path, [readable |-> FALSE, frame |-> <<>>, by |-> 0])
    /\ completed' = {d \in completed : KeyOf(d) # path.key}
    /\ UNCHANGED <<environ, data_dir, env_file, last, created, fetches, nonFetchVars>>

\* the environment of the process is set before a call
EnvSettings ==
    {<<"STATE_COLS", <<"ContractId", ",", " ", "ReportedDate", " ", ",", ",", "FloorCode">> >>}

SetEnvVar(name, value) ==
    /\ fetches < MaxFetches
    /\ getenv(environ, name) # Some(value)
    /\ environ' = putenv(environ, name, value)
    /\ UNCHANGED <<files, data_dir, env_file, last, completed, created, fetches, nonFetchVars>>

\* the input file is written again
RewriteSource ==
    /\ fetches < MaxFetches
    /\ data_dir # <<>>
    /\ data_dir[1].mtime_ns + 1 \in SourceMtimes
    /\ data_dir' = <<SourceFile(data_dir[1].mtime_ns + 1)>>
    /\ UNCHANGED <<environ, files, env_file, last, completed, created, fetches, nonFetchVars>>

NextFetch ==
    \/ \E ids \in FetchContractIds, s \in FetchStartDates, e \in FetchEndDates :
          Fetch("fetch_range", ids, s, e)
    \/ \E path \in DOMAIN files : CorruptEntry(path)
    \/ \E setting \in EnvSettings : SetEnvVar(setting[1], setting[2])
    \/ RewriteSource

SpecFetch == InitFetch /\ [][NextFetch]_vars

\* the entry points called with and without their mandatory arguments
NextArgs ==
    \E api \in Apis, ids \in FetchContractIds \cup {None},
       s \in FetchStartDates \cup {None}, e \in FetchEndDates :
          Fetch(api, ids, s, e)

SpecArgs == InitFetch /\ [][NextArgs]_vars

\* fetch_range in which reading the source or storing the entry can fail
Faults == {"none", "read_excel"} \cup StoreFaults

NextFault ==
    \/ \E ids \in FetchContractIds, s \in FetchStartDates, fault \in Faults :
          Call("fetch_range", ids, s, None, fault, MaxFetches)
    \/ \E path \in DOMAIN files : CorruptEntry(path)

SpecFault == InitFetch /\ [][NextFault]_vars

(* load_env_file on its own: .env is written line by line, variables of the  *)
(* process are set, and load_env_file is called, more than once.             *)

\* the lines of .env, none when the file is absent
LinesOf(envfile) == IF IsNone(envfile) THEN <<>> ELSE Get(envfile)

EnvLines ==
    {<<" ">>,
     <<" ", "#", "A", "=", "9">>,
     <<"A">>,
     <<"A", "=", "1">>,
     <<" ", "A", " ", "=", " ", "2", " ">>,
     <<"B", "=", "x", "=", "y">>}

ProcessSettings == {<<"A", <<"0">> >>, <<"A", <<>> >>}

InitEnv ==
    /\ MatchIdle
    /\ environ = NoEnviron
    /\ reqA = None /\ reqB = None /\ fingerprints = None
    /\ CacheIdle
    /\ FetchIdle

\* a line is added to .env, which is created if it is not there
WriteEnvLine(line) ==
    /\ Len(LinesOf(env_file)) < MaxEnvLines
    /\ env_file' = IF IsNone(env_file) THEN Some(<<line>>)
                   ELSE Some(Append(Get(env_file), line))
    /\ UNCHANGED <<environ, files, data_dir, last, completed, created, fetches,
                   nonFetchVars>>

\* os.environ[name] = value, by the process or its parent
SetProcessVar(name, value) ==
    /\ name \notin DOMAIN environ
    /\ environ' = putenv(environ, name, value)
    /\ UNCHANGED <<files, data_dir, env_file, last, completed, created, fetches,
                   nonFetchVars>>

\* load_env_file(); fetches counts the calls
LoadEnvFile ==
    /\ fetches < MaxEnvLoads
    /\ environ' = load_env_file(env_file, environ)
    /\ fetches' = fetches + 1
    /\ UNCHANGED <<files, data_dir, env_file, last, completed, created, nonFetchVars>>

NextEnv ==
    \/ \E line \in EnvLines : WriteEnvLine(line)
    \/ \E setting \in ProcessSettings : SetProcessVar(setting[1], setting[2])
    \/ LoadEnvFile

SpecEnv == InitEnv /\ [][NextEnv]_vars

(* Fetches that come back to a request after others, the tolerance of the    *)
(* environment changing in between.                                          *)

ToleranceSettings ==
    {<<"MERGE_TOLERANCE_MINUTES", <<"0">> >>, <<"MERGE_TOLERANCE_MINUTES", <<"2">> >>}

NextHit ==
    \/ \E ids \in FetchContractIds, s \in FetchStartDates, e \in FetchEndDates :
          Call("fetch_range", ids, s, e, "none", MaxHitFetches)
    \/ \E setting \in ToleranceSettings : SetEnvVar(setting[1], setting[2])

SpecHit == InitFetch /\ [][NextHit]_vars

(* The filters of fetch_range and the merge, on data frames built row by row: *)
(* the frames are filtered and merged as fetch_range does, and merged as they *)
(* are.                                                                       *)

PushdownContractIds == {<<"a">>, <<"a", "">>}
PushdownStartDates == {0, 60}
PushdownEndDates == {None, Some(120)}

\* fetch_range from its filters on: call is the merge of the filtered frames,
\* previous the merge of the frames as they were read
FilterAndBuild(contract_ids, start_date, end_date) ==
    /\ IsNone(call)
    /\ call' = Some([tolerance_minutes |-> None, contract_ids |-> contract_ids,
                     start_date |-> start_date, end_date |-> end_date,
                     result |-> build_merged_dataset(
                                   filter_range(operation_df, contract_ids, start_date, end_date),
                                   filter_range(state_df, contract_ids, start_date, end_date),
                                   None, environ)])
    /\ previous' = Some([tolerance_minutes |-> None,
                         result |-> build_merged_dataset(operation_df, state_df,
                                                         None, environ)])
    /\ UNCHANGED <<keyAttr, operation_df, state_df, environ, nonMatchVars>>

NextPushdown ==
    \/ \E v \in OperationValues, t \in OperationTimes : AddOperation(v, t, MaxRepeatRows)
    \/ \E v \in StatusValues, t \in StatusTimes : AddStatus(v, t, MaxRepeatRows)
    \/ \E ids \in PushdownContractIds, s \in PushdownStartDates, e \in PushdownEndDates :
          FilterAndBuild(ids, s, e)

SpecPushdown == InitMatch /\ [][NextPushdown]_vars

-----------------------------------------------------------------------------
(* Properties of the merge *)

\* the composite key of the specification: eight attributes, null read as ""
Normalised(v) == IF v = NA THEN "" ELSE v
SameKey(a, b) == \A i \in DOMAIN key_cols : Normalised(a[i]) = Normalised(b[i])

\* the tolerance of a call in seconds, the environment being unset (SpecMatch)
ToleranceSeconds(c) ==
    IF IsNone(c.tolerance_minutes) THEN 5 * 60 ELSE Get(c.tolerance_minutes) * 60

Occurrences(df, attrs, t) == Cardinality({i \in DOMAIN df : df[i].attrs = attrs /\ df[i].t = t})
OutputOccurrences(rows, attrs, t) ==
    Cardinality({i \in DOMAIN rows : rows[i].attrs = attrs /\ rows[i].ReportedDate = t})

Returned == ~IsNone(call) /\ Get(call).result.ok
OutputRows == Get(call).result.rows

\* C1: for every operation data frame, status data frame and tolerance >= 0 the
\* call returns, with exactly one output row per status row (none dropped, none
\* duplicated).
C1_CardinalityPreserved ==
    (~IsNone(call) /\ ToleranceSeconds(Get(call)) >= 0) =>
        /\ Get(call).result.ok
        /\ Len(OutputRows) = Len(state_df)
        /\ \A i \in DOMAIN state_df :
              OutputOccurrences(OutputRows, state_df[i].attrs, state_df[i].t)
                  = Occurrences(state_df, state_df[i].attrs, state_df[i].t)

\* C2: in every returned row is_remote_operation, a non-null OrderReceiptDate and
\* a non-null time_diff_seconds go together, and a matched row's
\* time_diff_seconds is |ReportedDate - OrderReceiptDate| and at most the tolerance.
C2_MatchedInvariant ==
    Returned =>
        \A i \in DOMAIN OutputRows :
            LET r == OutputRows[i] IN
            /\ r.is_remote_operation <=> ~IsNone(r.OrderReceiptDate)
            /\ ~IsNone(r.OrderReceiptDate) <=> ~IsNone(r.time_diff_seconds)
            /\ r.is_remote_operation =>
                  /\ Get(r.time_diff_seconds) = Abs(r.ReportedDate - Get(r.OrderReceiptDate))
                  /\ Get(r.time_diff_seconds) <= ToleranceSeconds(Get(call))

\* a returned call with a matched row off the exact timestamp and an unmatched row
C2_Witness ==
    /\ Returned
    /\ \E i \in DOMAIN OutputRows :
          OutputRows[i].is_remote_operation /\ Get(OutputRows[i].time_diff_seconds) > 0
    /\ \E i \in DOMAIN OutputRows : ~OutputRows[i].is_remote_operation

\* whether status row s of the input comes out of the call matched
MatchedInOutput(s) ==
    /\ Returned
    /\ \E i \in DOMAIN OutputRows :
          /\ OutputRows[i].attrs = s.attrs
          /\ OutputRows[i].ReportedDate = s.t
          /\ OutputRows[i].is_remote_operation

\* C3: for every status row s and tolerance >= 0, s is matched exactly when some
\* operation row of its composite key lies within the tolerance, and then to one
\* at the least distance among the operation rows of that key.
C3_NearestWithinTolerance ==
    (~IsNone(call) /\ ToleranceSeconds(Get(call)) >= 0) =>
        \A n \in DOMAIN state_df :
            LET s == state_df[n]
                partition == {j \in DOMAIN operation_df :
                                 SameKey(operation_df[j].attrs, s.attrs)}
                dist(j) == Abs(operation_df[j].t - s.t)
            IN /\ MatchedInOutput(s) <=>
                     \E j \in partition : dist(j) <= ToleranceSeconds(Get(call))
               /\ MatchedInOutput(s) =>
                     \A i \in DOMAIN OutputRows :
                        (OutputRows[i].attrs = s.attrs /\ OutputRows[i].ReportedDate = s.t) =>
                           \E j \in partition :
                              /\ operation_df[j].t = Get(OutputRows[i].OrderReceiptDate)
                              /\ \A m \in partition : dist(j) <= dist(m)

\* C4: a returned status row is matched only to an operation row equal to it in
\* all eight key attributes (null read as ""), and is unmatched when every
\* operation row within the tolerance differs from it in some key attribute.
C4_PartitionIsolation ==
    Returned =>
        \A i \in DOMAIN OutputRows :
            LET r == OutputRows[i] IN
            /\ r.is_remote_operation =>
                  \E j \in DOMAIN operation_df :
                     /\ operation_df[j].t = Get(r.OrderReceiptDate)
                     /\ \A c \in DOMAIN key_cols :
                           Normalised(operation_df[j].attrs[c]) = Normalised(r.attrs[c])
            /\ (\A j \in DOMAIN operation_df :
                   Abs(operation_df[j].t - r.ReportedDate) <= ToleranceSeconds(Get(call))
                      => \E c \in DOMAIN key_cols :
                            Normalised(operation_df[j].attrs[c]) # Normalised(r.attrs[c]))
                  => ~r.is_remote_operation

\* an operation row at the status row's own timestamp that differs from it in one
\* key attribute only: the status row is unmatched
C4_Witness ==
    /\ Returned
    /\ \E i \in DOMAIN OutputRows : \E j \in DOMAIN operation_df :
          /\ operation_df[j].t = OutputRows[i].ReportedDate
          /\ Cardinality({c \in DOMAIN key_cols :
                Normalised(operation_df[j].attrs[c]) # Normalised(OutputRows[i].attrs[c])}) = 1
          /\ ~OutputRows[i].is_remote_operation

-----------------------------------------------------------------------------
(* Properties of the fetch *)

\* the step is a fetch
Fetched == fetches' # fetches
\* the request of a fetch that came as far as the cache key
RequestOf(call_record) == Get(call_record.request)

\* C6: a fetch whose parameters, columns and source (path and modification
\* time) are those of a fetch that completed successfully, and whose cache
\* entry was not touched since, is served from the cache: it does not read the
\* source, and it does not write the cache.
C6_CacheHitOnRepeat ==
    [][(Fetched /\ ~IsNone(Get(last').request) /\ RequestOf(Get(last')) \in completed)
         => /\ Get(last').hit
            /\ "read_excel" \notin Elements(Get(last').steps)
            /\ "store_cache" \notin Elements(Get(last').steps)
            /\ files' = files]_vars

C6_Witness ==
    /\ fetches = 2
    /\ ~IsNone(last) /\ Get(last).hit /\ Get(last).outcome.ok
    /\ Get(last).outcome.rows # <<>>
    /\ RequestOf(Get(last)) \in completed

\* the cache directory without the entry of a key
WithoutEntry(fs, key) == unlink(unlink(fs, cache_paths(key)[1]), cache_paths(key)[2])

\* both files of the entry are there and one of them cannot be read
EntryCorrupt(fs, key) ==
    /\ \A n \in {1, 2} : exists(fs, cache_paths(key)[n])
    /\ \E n \in {1, 2} : ~fs[cache_paths(key)[n]].readable

\* C9: a fetch that finds both files of its cache entry, one of them unreadable,
\* behaves as the same fetch with no entry at all: load_cached reports the
\* failure and returns nothing, the fetch reads the source, returns what the
\* fetch without entry returns, and leaves the cache directory that fetch
\* leaves, with a fresh, readable entry.
C9_CorruptionRecovery ==
    [][(Fetched /\ ~IsNone(Get(last').request)
          /\ EntryCorrupt(files, KeyOf(RequestOf(Get(last')))))
         => LET c == Get(last')
                key == KeyOf(RequestOf(c))
                miss == fetch_range([World EXCEPT !.files = WithoutEntry(files, key)],
                                    c.contract_ids, c.start_date, c.end_date)
            IN /\ c.corrupt
               /\ c.outcome = miss.outcome
               /\ files' = miss.files
               /\ ~c.hit
               /\ "read_excel" \in Elements(c.steps)
               /\ \A n \in {1, 2} : /\ exists(files', cache_paths(key)[n])
                                    /\ files'[cache_paths(key)[n]].readable]_vars

C9_Witness ==
    /\ ~IsNone(last) /\ Get(last).corrupt
    /\ Get(last).outcome.ok /\ Get(last).outcome.rows # <<>>
    /\ RequestOf(Get(last)) \in completed

\* C10: a call of fetch_range, LoadLogsUseCase.execute or load_for_notebook
\* without contract_ids or without start_date raises ValueError, and has done
\* nothing before: .env is not loaded (the environment is as it was), no
\* source file is looked for, the cache is neither read nor written.
C10_MandatoryArguments ==
    [][(Fetched /\ (IsNone(Get(last').contract_ids) \/ IsNone(Get(last').start_date)))
         => /\ ~Get(last').outcome.ok
            /\ Get(last').outcome.error \in {"ValueError: start_date",
                                              "ValueError: contract_ids",
                                              "ValueError: contract_ids (full load)"}
            /\ Get(last').steps = <<>>
            /\ environ' = environ
            /\ files' = files]_vars

\* a call of fetch_range without a mandatory argument, made where a cache entry
\* is there to be read
C10_Witness ==
    /\ fetches = 2
    /\ ~IsNone(last)
    /\ IsNone(Get(last).contract_ids) \/ IsNone(Get(last).start_date)
    /\ Get(last).api = "fetch_range"
    /\ Get(last).steps = <<>>
    /\ files # NoFiles

\* the status events of the source that the request asks for: the contract id
\* is one of contract_ids, the timestamp is in the range
Requested(row, c) ==
    /\ \E i \in DOMAIN Get(c.contract_ids) : row.attrs[1] = Get(c.contract_ids)[i]
    /\ Get(c.start_date) <= row.t
    /\ ~IsNone(c.end_date) => row.t <= Get(c.end_date)

\* how many rows of the dataset are the status event of contract id at time t
RowsOf(rows, id, t) ==
    Cardinality({i \in DOMAIN rows : rows[i].attrs[1] = id /\ rows[i].ReportedDate = t})

\* the dataset has one row for every requested status event of the source, and
\* no other row
Complete(rows, statuses, c) ==
    /\ \A j \in DOMAIN statuses :
          RowsOf(rows, statuses[j].attrs[1], statuses[j].t) =
             IF Requested(statuses[j], c)
             THEN Cardinality({k \in DOMAIN statuses :
                                 /\ statuses[k].attrs[1] = statuses[j].attrs[1]
                                 /\ statuses[k].t = statuses[j].t})
             ELSE 0
    /\ Len(rows) = Cardinality({j \in DOMAIN statuses : Requested(statuses[j], c)})

\* the keys whose entry load_cached returns as a pair
ValidKeys(fs) == {path.key : path \in {q \in DOMAIN fs : ~IsNone(load_cached(fs, q.key).cached)}}

\* the failures before the entry is stored: no source, the source cannot be
\* read, the entry cannot be written
FailsBeforeStored(outcome) ==
    /\ ~outcome.ok
    /\ outcome.error \in {"FileNotFoundError", "ReadError", "KeyError", "OSError"}

\* C11: a fetch_range call that returns, returns one row for every status event
\* of the source whose contract id is in contract_ids and whose timestamp is in
\* the range, and no other row; a call that fails because there is no source,
\* because the source cannot be read or because the entry cannot be stored,
\* leaves no entry that load_cached returns as a pair and did not return
\* before.
C11_NoPartialResults ==
    [][Fetched =>
         LET c == Get(last')
         IN /\ c.outcome.ok => Complete(c.outcome.rows, data_dir[1].statuses, c)
            /\ FailsBeforeStored(c.outcome) => ValidKeys(files') \subseteq ValidKeys(files)]_vars

\* a store that fails while the state frame is written, after a request was
\* answered in full
C11_Witness ==
    /\ fetches = 2
    /\ ~IsNone(last) /\ ~Get(last).outcome.ok /\ Get(last).outcome.error = "OSError"
    /\ \E path \in DOMAIN files : path.suffix = ".state.parquet" /\ ~files[path].readable
    /\ completed # {}

\* the rows of a matched dataset whose status event the request asks for
RequestedRows(rows, c) ==
    LET Asked(r) == /\ \E i \in DOMAIN c.contract_ids : r.attrs[1] = c.contract_ids[i]
                    /\ c.start_date <= r.ReportedDate
                    /\ ~IsNone(c.end_date) => r.ReportedDate <= Get(c.end_date)
    IN SelectSeq(rows, Asked)

\* C12: filtering the operation and the status events by contract id and date
\* range and then matching gives what matching the events as they are and then
\* filtering the matched status rows gives: both return or both fail, with the
\* same rows and the same match for every status row.
C12_FilterPushdown ==
    (~IsNone(call) /\ ~IsNone(previous)) =>
        /\ Get(call).result.ok = Get(previous).result.ok
        /\ Get(call).result.ok =>
              Get(call).result.rows = RequestedRows(Get(previous).result.rows, Get(call))

\* the tolerance in minutes that a call made in environment env resolves: the
\* argument, else MERGE_TOLERANCE_MINUTES, else 5
ResolvedMinutes(c, env) ==
    IF ~IsNone(c.tolerance_minutes) THEN Get(c.tolerance_minutes)
    ELSE IF "MERGE_TOLERANCE_MINUTES" \in DOMAIN env
    THEN (IF env["MERGE_TOLERANCE_MINUTES"] = <<"-1">> THEN 0 - 1 ELSE 0)
    ELSE 5

\* a call fails for its tolerance exactly when the tolerance is negative
RejectsNegative(c, env) ==
    LET rejected == /\ ~c.result.ok
                    /\ c.result.error = "MergeError: tolerance must be positive"
    IN rejected <=> ResolvedMinutes(c, env) < 0

Tie(r, d) ==
    /\ d > 0 /\ d <= ToleranceSeconds(Get(call))
    /\ \E j \in DOMAIN operation_df :
          SameKey(operation_df[j].attrs, r.attrs) /\ operation_df[j].t = r.ReportedDate - d
    /\ \E j \in DOMAIN operation_df :
          SameKey(operation_df[j].attrs, r.attrs) /\ operation_df[j].t = r.ReportedDate + d
    /\ \A j \in DOMAIN operation_df :
          SameKey(operation_df[j].attrs, r.attrs) => Abs(operation_df[j].t - r.ReportedDate) >= d

TieDistances == {Abs(t - u) : t \in OperationTimes, u \in StatusTimes}

\* C14: in a dataset that build_merged_dataset returns, a status row with two
\* nearest operation candidates of its partition at the same distance, one
\* earlier and one later, both within the tolerance, is matched to the earlier
\* one.
C14_TieBreakEarlier ==
    Returned =>
        \A i \in DOMAIN OutputRows : \A d \in TieDistances :
            Tie(OutputRows[i], d) =>
                OutputRows[i].OrderReceiptDate = Some(OutputRows[i].ReportedDate - d)

C14_Witness ==
    /\ Returned
    /\ \E i \in DOMAIN OutputRows : \E d \in TieDistances :
          /\ Tie(OutputRows[i], d)
          /\ OutputRows[i].OrderReceiptDate = Some(OutputRows[i].ReportedDate - d)
          /\ Get(OutputRows[i].time_diff_seconds) = d

\* MERGE_TOLERANCE_MINUTES of an environment in which it is set, as a number
MinutesOf(env) == IF env["MERGE_TOLERANCE_MINUTES"] = <<"0">> THEN 0 ELSE 2

\* C15: a fetch whose parameters, columns and source are those of a fetch that
\* completed, made after MERGE_TOLERANCE_MINUTES changed, is a cache hit all the
\* same: it neither reads the source nor writes the cache, and it returns the
\* match of the events held in the entry under the tolerance the environment
\* has now.
C15_RematchOnHit ==
    [][(Fetched /\ ~IsNone(Get(last').request) /\ RequestOf(Get(last')) \in completed)
         => LET c == Get(last')
                entry == Get(load_cached(files, KeyOf(RequestOf(c))).cached)
            IN /\ c.hit
               /\ files' = files
               /\ c.outcome = build_merged_dataset(entry.op_df, entry.state_df,
                                                   Some(MinutesOf(environ')), NoEnviron)]_vars

\* a hit under a tolerance that is not the one of the fetch that stored the
\* entry, with another result
C15_Witness ==
    /\ ~IsNone(last) /\ Get(last).hit /\ Get(last).outcome.ok
    /\ LET stored == created[KeyOf(RequestOf(Get(last)))]
       IN /\ stored.tolerance # getenv(environ, "MERGE_TOLERANCE_MINUTES")
          /\ stored.outcome.ok
          /\ stored.outcome # Get(last).outcome

\* C19: a fetch served from the cache returns what the fetch that stored the
\* entry returned, when that fetch had the same source, parameters and columns
\* and ran under the same tolerance, whatever was fetched in between.
C19_CacheTransparency ==
    [][(Fetched /\ Get(last').hit)
         => LET c == Get(last')
                stored == created[KeyOf(RequestOf(c))]
            IN (/\ stored.request = RequestOf(c)
                /\ stored.tolerance = getenv(environ', "MERGE_TOLERANCE_MINUTES"))
               => c.outcome = stored.outcome]_vars

\* a hit, two fetches after the miss that stored the entry, another request
\* having been fetched in between
C19_Witness ==
    /\ fetches = 3
    /\ ~IsNone(last) /\ Get(last).hit /\ Get(last).outcome.ok
    /\ Get(last).outcome.rows # <<>>
    /\ Cardinality(DOMAIN created) = 2
    /\ created[KeyOf(RequestOf(Get(last)))].outcome = Get(last).outcome
    /\ created[KeyOf(RequestOf(Get(last)))].tolerance = getenv(environ, "MERGE_TOLERANCE_MINUTES")

\* an event is one the stored request q asks for
AskedBy(q, id, t) ==
    /\ \E i \in DOMAIN q.contract_ids : id = q.contract_ids[i]
    /\ q.start_date <= t
    /\ ~IsNone(q.end_date) => t <= Get(q.end_date)

\* contract id and timestamp of the rows of a frame, in order
Events(frame) == [i \in DOMAIN frame |-> <<frame[i].attrs[1], frame[i].t>>]

\* the events of a sheet of the source that q asks for, in order
AskedEvents(sheet, q) ==
    LET Asked(e) == AskedBy(q, e[1], e[2])
    IN SelectSeq(Events(sheet), Asked)

\* C16: every readable file of the cache directory was stored by a fetch and
\* holds source events as they were read, before the match: the operation file
\* the operation events, the state file the status events, that the request of
\* that fetch asks for (contract id in contract_ids, start <= t, and t <= end
\* when end is given), each row with its key attributes and its timestamp and
\* with no column of the match.
C16_CacheHoldsFilteredEvents ==
    \A path \in DOMAIN files :
        files[path].readable =>
            /\ path.key \in DOMAIN created
            /\ LET q == created[path.key].request
                   frame == files[path].frame
                   sheet == IF path.suffix = ".op.parquet"
                            THEN data_dir[1].operations ELSE data_dir[1].statuses
               IN /\ \A i \in DOMAIN frame :
                        /\ DOMAIN frame[i] = {"attrs", "t"}
                        /\ AskedBy(q, frame[i].attrs[1], frame[i].t)
                  /\ Events(frame) = AskedEvents(sheet, q)

\* an entry stored for a range with an end, which holds some of the operation
\* events of the source and not all of them
C16_Witness ==
    \E path \in DOMAIN files :
        /\ path.suffix = ".op.parquet"
        /\ files[path].readable
        /\ files[cache_paths(path.key)[2]].readable
        /\ ~IsNone(created[path.key].request.end_date)
        /\ files[path].frame # <<>>
        /\ Len(files[path].frame) < Len(data_dir[1].operations)
        /\ \E i \in DOMAIN data_dir[1].operations :
              /\ data_dir[1].operations[i].t > Get(created[path.key].request.end_date)
              /\ data_dir[1].operations[i].attrs[1] = files[path].frame[1].attrs[1]

\* what a line of .env says: nothing (a blank line, a comment, a line without
\* "="), or that a variable has a value
Assignment(line) ==
    CASE line = <<"A", "=", "1">> -> Some([name |-> "A", value |-> <<"1">>])
      [] line = <<" ", "A", " ", "=", " ", "2", " ">> -> Some([name |-> "A", value |-> <<"2">>])
      [] line = <<"B", "=", "x", "=", "y">> -> Some([name |-> "B", value |-> <<"x", "=", "y">>])
      [] OTHER -> None

\* line i is the first line of .env that gives variable name a value
FirstAssignment(lines, i, name) ==
    /\ ~IsNone(Assignment(lines[i])) /\ Get(Assignment(lines[i])).name = name
    /\ \A j \in 1..(i - 1) :
          IsNone(Assignment(lines[j])) \/ Get(Assignment(lines[j])).name # name

\* C18: a call of load_env_file leaves every variable of the environment that
\* is set with its value, and sets exactly the unset variables that a line
\* KEY=VALUE of .env names (not a blank line, a line that starts with "#" or a
\* line without "="), each to the value of its first such line; without .env
\* the environment is as it was; a further call changes nothing.
C18_EnvPrecedence ==
    [][Fetched =>
         LET lines == LinesOf(env_file)
         IN /\ \A n \in DOMAIN environ : n \in DOMAIN environ' /\ environ'[n] = environ[n]
            /\ \A n \in DOMAIN environ' \ DOMAIN environ :
                  \E i \in DOMAIN lines :
                     /\ FirstAssignment(lines, i, n)
                     /\ environ'[n] = Get(Assignment(lines[i])).value
            /\ \A i \in DOMAIN lines :
                  ~IsNone(Assignment(lines[i])) =>
                     Get(Assignment(lines[i])).name \in DOMAIN environ'
            /\ IsNone(env_file) => environ' = environ
            /\ load_env_file(env_file, environ') = environ']_vars

\* load_env_file was called twice, with a variable set by the process that .env
\* names too, and a variable that only .env names
C18_Witness ==
    /\ fetches = 2
    /\ ~IsNone(env_file)
    /\ \E i \in DOMAIN Get(env_file) :
          /\ ~IsNone(Assignment(Get(env_file)[i]))
          /\ Get(Assignment(Get(env_file)[i])).name = "A"
    /\ getenv(environ, "A") = Some(<<"0">>)
    /\ getenv(environ, "B") = Some(<<"x", "=", "y">>)

=========================================================================
